---- MODULE Spec2Model ----
(***************************************************************************)
(* Model of ElectronicsBOM.py: the exchange-rate cache (CurrencyManager),  *)
(* the two vendor adapters (get_mouser_stats, get_jlcpcb_stats), the       *)
(* refresh workers (DataUpdater.run), and the coordinating context         *)
(* (MainWindow.refresh_prices, update_db_and_ui, calc_total).              *)
(*                                                                         *)
(* Numbers.  Python floats are modelled by exact fixed-point integers:     *)
(*   - a USD->EUR rate is an integer number of thousandths (0.92 = 920);   *)
(*   - a supplier (USD) price is an integer number of thousandths of USD;  *)
(*   - every price in the reference currency is an integer number of       *)
(*     millionths of EUR (so 10.00 EUR = 10000000).                        *)
(* Strings are sequences of one-character strings.                         *)
(***************************************************************************)
EXTENDS Integers, Sequences, FiniteSets, TLC

VARIABLES
    rate,          \* CurrencyManager._rate (None or thousandths)
    last_update,   \* CurrencyManager._last_update (seconds)
    clock,         \* time.time()
    jobs,          \* the DataUpdater workers, by job number
    pending,       \* QThreadPool's queue of runnables not yet started
    events,        \* results emitted by workers, queued for the GUI thread
    comps,         \* the Component rows of the current project
    totals,        \* MainWindow.tm, .tj, .hybrid_total
    project,       \* MainWindow.current_project: its components' identifiers
    ticks,         \* number of clock advances so far
    env,           \* what the run's environment varies: the clock or the vendors
    inp,           \* input of the pure function under check
    out            \* its result

vars == <<rate, last_update, clock, jobs, pending, events, comps, totals, project, ticks, env, inp, out>>

\* None in a numeric cell (_rate, a rate returned by get_usd_to_eur)
None == -1

\* JSON / DOM values: null, an absent key or element, a string, a number
Null == [k |-> "null", v |-> <<>>]
Missing == [k |-> "missing", v |-> <<>>]
Str(s) == [k |-> "str", v |-> s]
Num(n) == [k |-> "num", v |-> n]
\* a value int() and float() reject (a list, an object, a non-numeric string)
Bad == [k |-> "bad", v |-> <<>>]

-----------------------------------------------------------------------------
(* Strings *)

DigitChars == <<"0", "1", "2", "3", "4", "5", "6", "7", "8", "9">>

\* str.isdigit on one character
IsDigit(c) == \E i \in 1..10 : DigitChars[i] = c

DigitVal(c) == (CHOOSE i \in 1..10 : DigitChars[i] = c) - 1

RECURSIVE Pow10(_)
Pow10(n) == IF n = 0 THEN 1 ELSE 10 * Pow10(n - 1)

\* the value of a non-empty sequence of digits
RECURSIVE DigitsToNat(_)
DigitsToNat(s) ==
    IF s = <<>> THEN 0
    ELSE 10 * DigitsToNat(SubSeq(s, 1, Len(s) - 1)) + DigitVal(s[Len(s)])

AllDigits(s) == \A i \in 1..Len(s) : IsDigit(s[i])

\* ''.join(filter(str.isdigit, s))
FilterDigits(s) == SelectSeq(s, IsDigit)

\* s.replace(c, '')
Remove(s, c) == SelectSeq(s, LAMBDA x : x # c)

\* s.replace(a, b) for one-character a and b
Replace(s, a, b) == [i \in 1..Len(s) |-> IF s[i] = a THEN b ELSE s[i]]

Contains(s, c) == \E i \in 1..Len(s) : s[i] = c

\* s.strip()
RECURSIVE Strip(_)
Strip(s) ==
    IF s = <<>> THEN s
    ELSE IF s[1] = " " THEN Strip(Tail(s))
    ELSE IF s[Len(s)] = " " THEN Strip(SubSeq(s, 1, Len(s) - 1))
    ELSE s

\* index of the first occurrence of c in s, 0 when absent
FirstIndex(s, c) ==
    IF Contains(s, c) THEN CHOOSE i \in 1..Len(s) : s[i] = c /\ \A k \in 1..(i - 1) : s[k] # c
    ELSE 0

\* int(s) on a str: [ok |-> FALSE] stands for ValueError
ParseInt(s) ==
    LET t == Strip(s)
    IN  IF t # <<>> /\ AllDigits(t) THEN [ok |-> TRUE, val |-> DigitsToNat(t)]
        ELSE [ok |-> FALSE, val |-> 0]

\* float(s) on a str, in millionths: [ok |-> FALSE] stands for ValueError.
\* Accepts digits with at most one '.', and at least one digit.
ParseFloat(s) ==
    LET t == Strip(s)
        d == FirstIndex(t, ".")
        ip == IF d = 0 THEN t ELSE SubSeq(t, 1, d - 1)
        fp == IF d = 0 THEN <<>> ELSE SubSeq(t, d + 1, Len(t))
        fp6 == IF Len(fp) > 6 THEN SubSeq(fp, 1, 6) ELSE fp
    IN  IF AllDigits(ip) /\ AllDigits(fp) /\ Len(ip) + Len(fp) > 0
        THEN [ok |-> TRUE,
              val |-> DigitsToNat(ip) * Pow10(6) + DigitsToNat(fp6) * Pow10(6 - Len(fp6))]
        ELSE [ok |-> FALSE, val |-> 0]

-----------------------------------------------------------------------------
(* get_jlcpcb_stats: the parsing of a fetched page *)

\* stock_text.replace(',', '').split(":")[1]
AfterColon(s) ==
    LET t == Remove(s, ",")
        a == FirstIndex(t, ":")
        rest == SubSeq(t, a + 1, Len(t))
        b == FirstIndex(rest, ":")
    IN  IF b = 0 THEN rest ELSE SubSeq(rest, 1, b - 1)

\* lines 149-158: the stock figure; every exception gives 0
JlcStock(stock_element) ==
    IF stock_element.k # "str" THEN 0
    ELSE LET text == Strip(stock_element.v)
         IN  IF Contains(text, ":")
             THEN (IF ParseInt(AfterColon(text)).ok THEN ParseInt(AfterColon(text)).val ELSE 0)
             ELSE (IF FilterDigits(text) # <<>> THEN DigitsToNat(FilterDigits(text)) ELSE 0)

\* zip(quant, cost)
Zip(quant, cost) ==
    LET n == IF Len(quant) < Len(cost) THEN Len(quant) ELSE Len(cost)
    IN  [i \in 1..n |-> <<quant[i], cost[i]>>]

\* one insertion of the stable sort: x goes after every tier whose minimum is <= its own
InsertTier(sorted, x) ==
    LET n == Cardinality({i \in 1..Len(sorted) : sorted[i][1] <= x[1]})
    IN  SubSeq(sorted, 1, n) \o <<x>> \o SubSeq(sorted, n + 1, Len(sorted))

\* sorted(tiers, key=lambda x: x[0]): stable, ascending by minimum quantity
RECURSIVE SortTiers(_)
SortTiers(ts) ==
    IF ts = <<>> THEN <<>>
    ELSE InsertTier(SortTiers(SubSeq(ts, 1, Len(ts) - 1)), ts[Len(ts)])

\* lines 175-177: for qty_tier, price_tier in tiers: if qnty >= qty_tier ... else: break
RECURSIVE TierWalk(_, _, _, _)
TierWalk(tiers, i, qnty, unit) ==
    IF i > Len(tiers) THEN unit
    ELSE IF qnty >= tiers[i][1] THEN TierWalk(tiers, i + 1, qnty, tiers[i][2])
    ELSE unit

\* the walk of lines 172-177 on the tiers as listed, without the sort of line 171
JlcUnitPriceUnsorted(quant, cost, qnty) ==
    LET tiers == Zip(quant, cost)
    IN  IF tiers # <<>> THEN TierWalk(tiers, 1, qnty, tiers[1][2]) ELSE 0

\* lines 171-178: the unit price chosen in the sorted tiers (0 when there are none)
JlcUnitPrice(quant, cost, qnty) ==
    LET tiers == SortTiers(Zip(quant, cost))
    IN  IF tiers # <<>> THEN TierWalk(tiers, 1, qnty, tiers[1][2]) ELSE 0

\* lines 162-178: total_price_usd
JlcTotalUsd(cost_div, qnty) ==
    IF cost_div.k = "div" /\ Zip(cost_div.quant, cost_div.cost) # <<>>
    THEN qnty * JlcUnitPrice(cost_div.quant, cost_div.cost, qnty)
    ELSE 0

\* get_jlcpcb_stats without the test of line 138
JlcParseNoGuard(code, qnty, page) ==
    IF page.status # "ok" THEN [net |-> TRUE, early |-> TRUE, quantity |-> -1, usd |-> 0]
    ELSE [net |-> TRUE, early |-> FALSE,
          quantity |-> JlcStock(page.stock_element),
          usd |-> JlcTotalUsd(page.cost_div, qnty)]

\* lines 138-178: get_jlcpcb_stats up to its call of get_usd_to_eur.
\* net: a request was issued; early: it returned [-1, 0.0] at line 138 or 144.
JlcParse(code, qnty, page) ==
    IF code = <<>> THEN [net |-> FALSE, early |-> TRUE, quantity |-> -1, usd |-> 0]
    ELSE IF page.status # "ok" THEN [net |-> TRUE, early |-> TRUE, quantity |-> -1, usd |-> 0]
    ELSE [net |-> TRUE, early |-> FALSE,
          quantity |-> JlcStock(page.stock_element),
          usd |-> JlcTotalUsd(page.cost_div, qnty)]

\* line 181: [quantity, total_price_usd * rate]; a None rate raises TypeError
JlcResult(quantity, usd, r) ==
    IF r = None THEN [raised |-> TRUE, stock |-> 0, price |-> 0]
    ELSE [raised |-> FALSE, stock |-> quantity, price |-> usd * r]

-----------------------------------------------------------------------------
(* get_mouser_stats *)

\* the one character U+20AC
EuroSign == "EUR"

\* str(n) of a natural number
RECURSIVE NatToStr(_)
NatToStr(n) ==
    IF n < 10 THEN <<DigitChars[n + 1]>>
    ELSE NatToStr(n \div 10) \o <<DigitChars[(n % 10) + 1]>>

\* str(x) of a JSON value
PyStr(x) ==
    IF x.k = "str" THEN x.v
    ELSE IF x.k = "num" THEN NatToStr(x.v)
    ELSE IF x.k = "null" THEN <<"N", "o", "n", "e">>
    ELSE <<"[", "]">>

\* lines 206-208: the stock of a part
MouserStock(part) ==
    LET a == IF part.Availability.k = "missing" THEN <<"0">> ELSE PyStr(part.Availability)
        f == IF part.FactoryStock.k = "missing" THEN <<"0">> ELSE PyStr(part.FactoryStock)
        avail_str == IF a = <<"N", "o", "n", "e">> THEN f ELSE a
    IN  IF FilterDigits(avail_str) # <<>> THEN DigitsToNat(FilterDigits(avail_str)) ELSE 0

\* lines 216 and 221: float(price.replace('\u20ac','').replace('$','').replace(',','.').strip());
\* an absent Price is '0'; a Price that is no string has no replace (an exception)
MouserPrice(price) ==
    IF price.k = "missing" THEN [ok |-> TRUE, val |-> 0]
    ELSE IF price.k # "str" THEN [ok |-> FALSE, val |-> 0]
    ELSE ParseFloat(Strip(Replace(Remove(Remove(price.v, EuroSign), "$"), ",", ".")))

\* line 215: int(pb.get('Quantity', 99999))
MouserQuantity(q) ==
    IF q.k = "missing" THEN [ok |-> TRUE, val |-> 99999]
    ELSE IF q.k = "num" THEN [ok |-> TRUE, val |-> q.v]
    ELSE IF q.k = "str" THEN ParseInt(q.v)
    ELSE [ok |-> FALSE, val |-> 0]

\* lines 213-217: the loop over the price breaks, in the order of the response
RECURSIVE MouserLoop(_, _, _, _)
MouserLoop(breaks, i, qty, price_unit) ==
    IF i > Len(breaks) THEN [raised |-> FALSE, price_unit |-> price_unit]
    ELSE LET q == MouserQuantity(breaks[i].Quantity)
             p == MouserPrice(breaks[i].Price)
         IN  IF ~q.ok THEN [raised |-> TRUE, price_unit |-> 0]
             ELSE IF qty >= q.val /\ p.ok THEN MouserLoop(breaks, i + 1, qty, p.val)
             ELSE MouserLoop(breaks, i + 1, qty, price_unit)

\* lines 211-222: price_unit
MouserUnitPrice(breaks, qty) ==
    LET l == MouserLoop(breaks, 1, qty, 0)
    IN  IF l.raised THEN l
        ELSE IF l.price_unit = 0 /\ breaks # <<>> /\ MouserPrice(breaks[1].Price).ok
        THEN [raised |-> FALSE, price_unit |-> MouserPrice(breaks[1].Price).val]
        ELSE l

\* a failed request reported as a part out of stock
UnavailableZero == [net |-> TRUE, stock |-> 0, price |-> 0]

Unavailable == [net |-> TRUE, stock |-> -1, price |-> 0]

\* lines 189-226: get_mouser_stats. The response r is the outcome of requests.post
\* and r.json(): an exception, or a status with the decoded body.
get_mouser_stats(part_number, qty, api_key, r) ==
    IF part_number = <<>> \/ api_key = <<>> THEN [net |-> FALSE, stock |-> -1, price |-> 0]
    ELSE IF r.kind = "exception" THEN Unavailable
    ELSE IF r.status_code # 200 THEN Unavailable
    ELSE IF r.Errors THEN Unavailable
    ELSE IF r.Parts = <<>> THEN Unavailable
    ELSE LET part == r.Parts[1]
             u == MouserUnitPrice(part.PriceBreaks, qty)
         IN  IF u.raised THEN Unavailable
             ELSE [net |-> TRUE, stock |-> MouserStock(part), price |-> u.price_unit * qty]

-----------------------------------------------------------------------------
(* MainWindow.calc_total *)

Fin(x) == [inf |-> FALSE, v |-> x]
Inf == [inf |-> TRUE, v |-> 0]

\* min(a, b) on floats that may be float('inf')
FMin(a, b) ==
    IF a.inf THEN b
    ELSE IF b.inf THEN a
    ELSE IF b.v < a.v THEN b ELSE a

\* a strict comparison in the place of line 850's >=
m_okStrict(c) == c.last_mouser_stock > c.target_qty

\* lines 850-851
m_ok(c) == c.last_mouser_stock >= c.target_qty
j_ok(c) == c.last_jlc_stock >= c.target_qty

\* lines 858-861: best
Best(c) ==
    FMin(IF m_ok(c) THEN Fin(c.last_mouser_price) ELSE Inf,
         IF j_ok(c) THEN Fin(c.last_jlc_price) ELSE Inf)

\* lines 843-867: the loop over the components cs (a sequence), from index i
RECURSIVE calc_loop(_, _, _)
calc_loop(cs, i, acc) ==
    IF i > Len(cs) THEN acc
    ELSE LET c == cs[i]
         IN  calc_loop(cs, i + 1,
                 [tm |-> acc.tm + (IF m_ok(c) THEN c.last_mouser_price ELSE 0),
                  tj |-> acc.tj + (IF j_ok(c) THEN c.last_jlc_price ELSE 0),
                  hybrid_total |-> acc.hybrid_total + (IF Best(c).inf THEN 0 ELSE Best(c).v)])

calc_total(cs) == calc_loop(cs, 1, [tm |-> 0, tj |-> 0, hybrid_total |-> 0])

-----------------------------------------------------------------------------
(* CurrencyManager.get_usd_to_eur, DataUpdater.run and the GUI thread *)

\* the cache's freshness window, seconds
DAY == 86400

\* the static fallback 0.92, in thousandths
FALLBACK == 920

\* bounds of the model
MaxJobs == 2
MaxTicks == 2
MaxThreads == 2
StartClock == 100000

\* the rates the exchange-rate service may answer, in thousandths
RateValues == {900, 950}

\* outcomes of requests.get + response.json() + data['rates']['EUR'] (lines 57-60)
RateResponses ==
    {[kind |-> "ok", v |-> x] : x \in RateValues}
    \cup {[kind |-> "non200", v |-> 0], [kind |-> "exception", v |-> 0]}

\* a component's identifiers and target quantity
Comp(m, j, q) == [mouser_part_number |-> m, jlc_part_number |-> j, target_qty |-> q]

\* the projects the user may have selected: two components; one component,
\* which a second refresh can reach while its first job is in flight; one
\* component without a supplier code
Projects ==
    { << Comp(<<"M", "1">>, <<"C", "1">>, 10), Comp(<<"M", "2">>, <<"C", "2">>, 1) >>,
      << Comp(<<"M", "1">>, <<"C", "1">>, 10) >>,
      << Comp(<<"M", "3">>, <<>>, 1) >> }

CompIds == 1..Len(project)

\* every component of every project
AllComps == UNION {{p[i] : i \in 1..Len(p)} : p \in Projects}

\* QSettings "mouser_key"
MouserKey == <<"K">>

\* responses of the distributor API the workers may meet
PartA ==
    [Availability |-> Str(<<"5", "0", " ", "I", "n">>), FactoryStock |-> Missing,
     PriceBreaks |-> << [Quantity |-> Num(1), Price |-> Str(<<"0", ",", "5">>)] >>]

MouserResponses ==
    { [kind |-> "exception", status_code |-> 0, Errors |-> FALSE, Parts |-> <<>>],
      [kind |-> "http", status_code |-> 200, Errors |-> FALSE, Parts |-> <<PartA>>] }

\* pages of the supplier the workers may meet
JlcPages ==
    { [status |-> "error", stock_element |-> Missing,
       cost_div |-> [k |-> "none", quant |-> <<>>, cost |-> <<>>]],
      [status |-> "ok", stock_element |-> Str(<<"S", ":", "2", "0">>),
       cost_div |-> [k |-> "div", quant |-> <<1, 10>>, cost |-> <<500, 400>>]] }

\* what the two adapters make of each response, for each component (the adapters
\* are functions of their arguments and of the response)
MouserTable ==
    [c \in AllComps, mr \in MouserResponses |->
        get_mouser_stats(c.mouser_part_number, c.target_qty, MouserKey, mr)]

JlcTable ==
    [c \in AllComps, page \in JlcPages |-> JlcParse(c.jlc_part_number, c.target_qty, page)]

\* The environment of a run varies either the clock (the vendors answer well
\* every time) or the vendors' answers (the run is short: no second passes).
\* The exchange-rate service may answer anything in both.
Envs == {"clock", "vendors"}

GoodMouser == CHOOSE r \in MouserResponses : r.kind = "http"
GoodPage == CHOOSE p \in JlcPages : p.status = "ok"

MouserMenu == IF env = "vendors" THEN MouserResponses ELSE {GoodMouser}
PageMenu == IF env = "vendors" THEN JlcPages ELSE {GoodPage}

\* the states of a job in which it occupies a pool thread
Running == {"rate_check", "rate_fetch", "rate_w2", "fallback", "warn", "aborted", "rate_ret", "emit"}

NumRunning == Cardinality({j \in 1..Len(jobs) : jobs[j].pc \in Running})

NewComponent(c) ==
    [target_qty |-> c.target_qty,
     last_mouser_stock |-> -1, last_mouser_price |-> 0,
     last_jlc_stock |-> -1, last_jlc_price |-> 0, last_update |-> 0]

\* the component rows as the sequence calc_total iterates over
CompSeq(cs) == [i \in 1..Len(project) |-> cs[i]]

\* DataUpdater.__init__ (line 242)
NewJob(i) ==
    [pc |-> "pending", c_id |-> i,
     m_res |-> <<0, 0>>, j_res |-> <<0, 0>>, now |-> 0, r |-> None]

Init ==
    /\ rate = None
    /\ last_update = 0
    /\ clock = StartClock
    /\ jobs = <<>>
    /\ pending = <<>>
    /\ events = <<>>
    /\ project \in Projects
    /\ comps = [i \in CompIds |-> NewComponent(project[i])]
    /\ totals = calc_total(CompSeq(comps))
    /\ ticks = 0
    /\ env \in Envs
    /\ inp = 0
    /\ out = 0

\* time passes
Tick ==
    /\ env = "clock"
    /\ ticks < MaxTicks
    /\ \E d \in {1, DAY} : clock' = clock + d
    /\ ticks' = ticks + 1
    /\ UNCHANGED <<rate, last_update, jobs, pending, events, comps, totals, project, env, inp, out>>

\* MainWindow.refresh_prices: one worker per component, handed to the pool
refresh_prices ==
    /\ Len(jobs) + Len(project) <= MaxJobs
    /\ jobs' = jobs \o [i \in CompIds |-> NewJob(i)]
    /\ pending' = pending \o [i \in CompIds |-> Len(jobs) + i]
    /\ UNCHANGED <<rate, last_update, clock, events, comps, totals, project, ticks, env, inp, out>>

\* DataUpdater.run, lines 248-249 down to line 51 of get_usd_to_eur: the pool
\* starts the oldest pending worker; it queries the distributor, fetches and
\* parses the supplier page and, unless get_jlcpcb_stats returned early, reads
\* the clock.
Start ==
    /\ pending # <<>>
    /\ NumRunning < MaxThreads
    /\ LET j == Head(pending)
           c == project[jobs[j].c_id]
       IN  \E mr \in MouserMenu, page \in PageMenu :
             LET m == MouserTable[c, mr]
                 p == JlcTable[c, page]
             IN  jobs' = [jobs EXCEPT ![j] =
                     [@ EXCEPT !.pc = IF p.early THEN "emit" ELSE "rate_check",
                               !.m_res = <<m.stock, m.price>>,
                               !.j_res = <<p.quantity, p.usd>>,
                               !.now = IF p.early THEN 0 ELSE clock]]
    /\ pending' = Tail(pending)
    /\ UNCHANGED <<rate, last_update, clock, events, comps, totals, project, ticks, env, inp, out>>

\* line 53
StaleGE(j) == rate = None \/ (jobs[j].now - last_update) >= DAY
Stale(j) == rate = None \/ (jobs[j].now - last_update) > DAY

Check(j) ==
    /\ jobs[j].pc = "rate_check"
    /\ jobs' = [jobs EXCEPT ![j].pc = IF Stale(j) THEN "rate_fetch" ELSE "rate_ret"]
    /\ UNCHANGED <<rate, last_update, clock, pending, events, comps, totals, project, ticks, env, inp, out>>

\* line 64: where the except clause goes, by the _rate it finds
ExceptAlways(r) == "fallback"
ExceptPc(r) == IF r = None THEN "fallback" ELSE "rate_ret"

\* lines 57-64, up to and including the first access to the cache that follows
\* the response: the write of line 60, or the test of line 64
Fetch(j) ==
    /\ jobs[j].pc = "rate_fetch"
    /\ \E resp \in RateResponses :
         \/ /\ resp.kind = "ok"
            /\ rate' = resp.v
            /\ jobs' = [jobs EXCEPT ![j] = [@ EXCEPT !.pc = "rate_w2", !.r = resp.v]]
         \/ /\ resp.kind = "non200"
            /\ UNCHANGED rate
            /\ jobs' = [jobs EXCEPT ![j].pc = "rate_ret"]
         \/ /\ resp.kind = "exception"
            /\ UNCHANGED rate
            /\ jobs' = [jobs EXCEPT ![j].pc = ExceptPc(rate)]
    /\ UNCHANGED <<last_update, clock, pending, events, comps, totals, project, ticks, env, inp, out>>

\* line 61
Write2(j) ==
    /\ jobs[j].pc = "rate_w2"
    /\ last_update' = jobs[j].now
    /\ jobs' = [jobs EXCEPT ![j].pc = "rate_ret"]
    /\ UNCHANGED <<rate, clock, pending, events, comps, totals, project, ticks, env, inp, out>>

\* line 65
FallbackLost(j) ==
    /\ jobs[j].pc = "fallback"
    /\ jobs' = [jobs EXCEPT ![j].pc = "warn"]
    /\ UNCHANGED <<rate, last_update, clock, pending, events, comps, totals, project, ticks, env, inp, out>>

Fallback(j) ==
    /\ jobs[j].pc = "fallback"
    /\ rate' = FALLBACK
    /\ jobs' = [jobs EXCEPT ![j].pc = "warn"]
    /\ UNCHANGED <<last_update, clock, pending, events, comps, totals, project, ticks, env, inp, out>>

\* line 66: QMessageBox.warning called on a pool thread. Qt leaves the use of a
\* widget outside the GUI thread undefined: the call may return ...
WarnReturn(j) ==
    /\ jobs[j].pc = "warn"
    /\ jobs' = [jobs EXCEPT ![j].pc = "rate_ret"]
    /\ UNCHANGED <<rate, last_update, clock, pending, events, comps, totals, project, ticks, env, inp, out>>

\* the fields of a job that no later step reads
Dead(job) ==
    [job EXCEPT !.m_res = <<0, 0>>, !.j_res = <<0, 0>>, !.now = 0, !.r = None]

\* ... or never return
WarnAbort(j) ==
    /\ jobs[j].pc = "warn"
    /\ jobs' = [jobs EXCEPT ![j] = [Dead(@) EXCEPT !.pc = "aborted"]]
    /\ UNCHANGED <<rate, last_update, clock, pending, events, comps, totals, project, ticks, env, inp, out>>

\* line 68 and line 181: the rate returned and the product; a TypeError ends run
Return(j) ==
    /\ jobs[j].pc = "rate_ret"
    /\ LET res == JlcResult(jobs[j].j_res[1], jobs[j].j_res[2], rate)
       IN  jobs' = [jobs EXCEPT ![j] =
               IF res.raised THEN [Dead(@) EXCEPT !.pc = "raised"]
               ELSE [@ EXCEPT !.pc = "emit", !.j_res = <<res.stock, res.price>>,
                              !.now = 0, !.r = None]]
    /\ UNCHANGED <<rate, last_update, clock, pending, events, comps, totals, project, ticks, env, inp, out>>

\* datetime.now().strftime("%Y-%m-%d %H:%M"): the minute
Timestamp(t) == t \div 60

\* lines 250-258: the result dict; job is not in the dict, it names the emitter
Result(j) ==
    [id |-> jobs[j].c_id,
     mouser_stock |-> jobs[j].m_res[1], mouser_price |-> jobs[j].m_res[2],
     jlc_stock |-> jobs[j].j_res[1], jlc_price |-> jobs[j].j_res[2],
     timestamp |-> Timestamp(clock), job |-> j]

Emit(j) ==
    /\ jobs[j].pc = "emit"
    /\ events' = Append(events, Result(j))
    /\ jobs' = [jobs EXCEPT ![j] = [Dead(@) EXCEPT !.pc = "posted"]]
    /\ UNCHANGED <<rate, last_update, clock, pending, comps, totals, project, ticks, env, inp, out>>

\* the result written to the first row, whatever its id
ApplyResultRow1(cs, data) ==
    IF 1 \in DOMAIN cs
    THEN [cs EXCEPT ![1] =
             [@ EXCEPT !.last_mouser_stock = data.mouser_stock,
                       !.last_mouser_price = data.mouser_price,
                       !.last_jlc_stock = data.jlc_stock,
                       !.last_jlc_price = data.jlc_price,
                       !.last_update = data.timestamp]]
    ELSE cs

\* the result written to its row, and its timestamp to every row
ApplyResultStamp(cs, data) ==
    [i \in DOMAIN cs |->
        IF i = data.id
        THEN [cs[i] EXCEPT !.last_mouser_stock = data.mouser_stock,
                           !.last_mouser_price = data.mouser_price,
                           !.last_jlc_stock = data.jlc_stock,
                           !.last_jlc_price = data.jlc_price,
                           !.last_update = data.timestamp]
        ELSE [cs[i] EXCEPT !.last_update = data.timestamp]]

\* a failed vendor's result (stock -1) leaving that vendor's stored values in place
ApplyResultKeep(cs, data) ==
    IF data.id \in DOMAIN cs
    THEN [cs EXCEPT ![data.id] =
             [@ EXCEPT !.last_mouser_stock =
                           IF data.mouser_stock = -1 THEN @ ELSE data.mouser_stock,
                       !.last_mouser_price =
                           IF data.mouser_stock = -1 THEN @ ELSE data.mouser_price,
                       !.last_jlc_stock = IF data.jlc_stock = -1 THEN @ ELSE data.jlc_stock,
                       !.last_jlc_price = IF data.jlc_stock = -1 THEN @ ELSE data.jlc_price,
                       !.last_update = data.timestamp]]
    ELSE cs

\* lines 831-836: the rows after data is applied
ApplyResult(cs, data) ==
    IF data.id \in DOMAIN cs
    THEN [cs EXCEPT ![data.id] =
             [@ EXCEPT !.last_mouser_stock = data.mouser_stock,
                       !.last_mouser_price = data.mouser_price,
                       !.last_jlc_stock = data.jlc_stock,
                       !.last_jlc_price = data.jlc_price,
                       !.last_update = data.timestamp]]
    ELSE cs

\* update_db_and_ui with the totals computed before the result is applied
update_db_and_uiStale ==
    /\ events # <<>>
    /\ comps' = ApplyResult(comps, Head(events))
    /\ totals' = calc_total(CompSeq(comps))
    /\ events' = Tail(events)
    /\ jobs' = [jobs EXCEPT ![Head(events).job].pc = "delivered"]
    /\ UNCHANGED <<rate, last_update, clock, pending, project, ticks, env, inp, out>>

\* MainWindow.update_db_and_ui, with the calc_total it ends with: the GUI thread
\* takes the oldest queued result
update_db_and_ui ==
    /\ events # <<>>
    /\ comps' = ApplyResult(comps, Head(events))
    /\ totals' = calc_total(CompSeq(comps'))
    /\ events' = Tail(events)
    /\ jobs' = [jobs EXCEPT ![Head(events).job].pc = "delivered"]
    /\ UNCHANGED <<rate, last_update, clock, pending, project, ticks, env, inp, out>>

\* the steps of the worker of job j
Worker(j) ==
    /\ j \in DOMAIN jobs
    /\ \/ Check(j)
       \/ Fetch(j)
       \/ Write2(j)
       \/ Fallback(j)
       \/ WarnReturn(j)
       \/ Return(j)
       \/ Emit(j)

Next ==
    \/ Tick
    \/ refresh_prices
    \/ Start
    \/ \E j \in 1..Len(jobs) : Worker(j)
    \/ \E j \in 1..Len(jobs) : WarnAbort(j)
    \/ update_db_and_ui

Spec == Init /\ [][Next]_vars

\* The pool runs every started worker and starts every pending one when a
\* thread is free, every request ends (timeout=5, timeout=10), the dialog of
\* line 66 is taken to return whenever it can, and the GUI thread's event loop
\* handles every queued result.
Fairness ==
    /\ WF_vars(Start)
    /\ \A j \in 1..MaxJobs : WF_vars(Worker(j))
    /\ WF_vars(update_db_and_ui)

LiveSpec == Init /\ [][Next]_vars /\ Fairness

-----------------------------------------------------------------------------
(* The adapters' tier selection and calc_total as functions of their inputs *)

\* bounds of the inputs
MaxTiers == 3
MaxBreaks == 2
MaxComps == 2

\* all sequences over S of length at most n
SeqsUpTo(S, n) == UNION {[1..k -> S] : k \in 0..n}

\* the program's state outside the function under check
NoProgram ==
    /\ rate = None
    /\ last_update = 0
    /\ clock = StartClock
    /\ jobs = <<>>
    /\ pending = <<>>
    /\ events = <<>>
    /\ project = <<>>
    /\ comps = <<>>
    /\ totals = calc_total(<<>>)
    /\ ticks = 0
    /\ env = "vendors"

program == <<rate, last_update, clock, jobs, pending, events, comps, totals, project, ticks, env>>

NoOut == [done |-> FALSE]

(* get_jlcpcb_stats, lines 166-178 *)

TierMinimums == {1, 10, 100}
TierPrices == {300, 400, 500}
TierRequests == {0, 5, 10, 25, 100}

TierInit ==
    /\ NoProgram
    /\ inp \in {[tiers |-> t, qnty |-> n] : t \in SeqsUpTo(TierMinimums \X TierPrices, MaxTiers),
                                             n \in TierRequests}
    /\ out = NoOut

\* the lists the two regular expressions of lines 166 and 168 give
Quant(tiers) == [i \in 1..Len(tiers) |-> tiers[i][1]]
Cost(tiers) == [i \in 1..Len(tiers) |-> tiers[i][2]]

ResolveTiers ==
    /\ ~out.done
    /\ out' = [done |-> TRUE,
               unit |-> JlcUnitPrice(Quant(inp.tiers), Cost(inp.tiers), inp.qnty),
               total |-> JlcTotalUsd([k |-> "div", quant |-> Quant(inp.tiers),
                                      cost |-> Cost(inp.tiers)], inp.qnty)]
    /\ UNCHANGED <<program, inp>>

SpecTier == TierInit /\ [][ResolveTiers]_vars

(* get_mouser_stats *)

BreakQuantities == {Num(1), Num(10), Bad}
BreakPrices ==
    { Str(<<"0", ".", "5">>), Str(<<"$", "0", ",", "4">>),
      Str(<<"$", "1", ",", "2", "3", "4", ".", "5", "0">>),
      Str(<<"1", ".", "2", "3", "4", ",", "5", "0">>),
      Str(<<>>) }
MouserRequests == {5, 25}

Break(q, p) == [Quantity |-> q, Price |-> p]

Part(a, f, b) == [Availability |-> a, FactoryStock |-> f, PriceBreaks |-> b]

Http(status, errors, parts) ==
    [kind |-> "http", status_code |-> status, Errors |-> errors, Parts |-> parts]

Stocks == {Missing, Null, Str(<<"5", "0", " ", "I", "n">>), Str(<<"N", "/", "A">>)}

MouserCall(pn, key, qty, r) == [part_number |-> pn, api_key |-> key, qty |-> qty, r |-> r]

MouserInputs ==
    \* every list of price breaks, the rest being well
    { MouserCall(<<"M">>, <<"K">>, n, Http(200, FALSE, <<Part(Str(<<"5", "0">>), Missing, b)>>)) :
        b \in SeqsUpTo({Break(q, p) : q \in BreakQuantities, p \in BreakPrices}, MaxBreaks),
        n \in MouserRequests }
    \cup
    \* every stock, the price breaks being well
    { MouserCall(<<"M">>, <<"K">>, 5,
                 Http(200, FALSE, <<Part(a, f, <<Break(Num(1), Str(<<"0", ".", "5">>))>>)>>)) :
        a \in Stocks, f \in Stocks }
    \cup
    \* every failure of the request, and the calls without a key or an identifier
    { MouserCall(pn, key, 5, r) :
        pn \in {<<>>, <<"M">>}, key \in {<<>>, <<"K">>},
        r \in { [kind |-> "exception", status_code |-> 0, Errors |-> FALSE, Parts |-> <<>>],
                Http(500, FALSE, <<>>), Http(200, TRUE, <<>>), Http(200, FALSE, <<>>),
                Http(200, FALSE, <<PartA>>) } }

MouserInit ==
    /\ NoProgram
    /\ inp \in MouserInputs
    /\ out = NoOut

CallMouser ==
    /\ ~out.done
    /\ LET res == get_mouser_stats(inp.part_number, inp.qty, inp.api_key, inp.r)
       IN  out' = [done |-> TRUE, net |-> res.net, stock |-> res.stock, price |-> res.price]
    /\ UNCHANGED <<program, inp>>

SpecMouser == MouserInit /\ [][CallMouser]_vars

(* calc_total *)

RowStocks == {-1, 5, 10, 50}
MouserRowPrices == {0, 7000000}
JlcRowPrices == {5000000, 7000000}

Row(q, ms, mp, js, jp) ==
    [target_qty |-> q, last_mouser_stock |-> ms, last_mouser_price |-> mp,
     last_jlc_stock |-> js, last_jlc_price |-> jp, last_update |-> 0]

Rows ==
    { Row(10, ms, mp, js, jp) :
        ms \in RowStocks, mp \in MouserRowPrices, js \in RowStocks, jp \in JlcRowPrices }
    \cup { Row(0, -1, 7000000, js, 5000000) : js \in {-1, 5} }

TotalInit ==
    /\ NoProgram
    /\ inp \in SeqsUpTo(Rows, MaxComps)
    /\ out = NoOut

CalcTotal ==
    /\ ~out.done
    /\ LET t == calc_total(inp)
       IN  out' = [done |-> TRUE, tm |-> t.tm, tj |-> t.tj, hybrid_total |-> t.hybrid_total]
    /\ UNCHANGED <<program, inp>>

SpecTotal == TotalInit /\ [][CalcTotal]_vars

(* update_db_and_ui on the results of one refresh batch, in every order of delivery *)

\* bound: the components of the project when the batch is submitted
MaxBatch == 3

\* what a worker may report for its component
Reports ==
    { [mouser_stock |-> 50, mouser_price |-> 7000000, jlc_stock |-> 20, jlc_price |-> 5000000],
      [mouser_stock |-> -1, mouser_price |-> 0, jlc_stock |-> 20, jlc_price |-> 6000000],
      [mouser_stock |-> 50, mouser_price |-> 3000000, jlc_stock |-> -1, jlc_price |-> 0] }

\* lines 253-258: the dict job i of the batch emits for component i
BatchResult(i, rep) ==
    [id |-> i,
     mouser_stock |-> rep.mouser_stock, mouser_price |-> rep.mouser_price,
     jlc_stock |-> rep.jlc_stock, jlc_price |-> rep.jlc_price,
     timestamp |-> Timestamp(StartClock) + i, job |-> i]

\* the orders in which the n results may reach the GUI thread
Perms(n) == {p \in [1..n -> 1..n] : \A a, b \in 1..n : p[a] = p[b] => a = b}

\* A batch of n jobs has emitted its results; meanwhile the user may have deleted
\* the last component (del_component), whose result then names no row.
DeliverInit ==
    /\ rate = None
    /\ last_update = 0
    /\ clock = StartClock
    /\ ticks = 0
    /\ env = "vendors"
    /\ pending = <<>>
    /\ out = NoOut
    /\ \E n \in 1..MaxBatch, kept \in 0..MaxBatch :
         /\ kept \in {n - 1, n}
         /\ project = [i \in 1..kept |-> Comp(<<"M">>, <<"C">>, 10)]
         /\ comps = [i \in 1..kept |-> NewComponent(project[i])]
         /\ totals = calc_total(CompSeq(comps))
         /\ jobs = [i \in 1..n |-> [NewJob(i) EXCEPT !.pc = "posted"]]
         /\ inp \in {[i \in 1..n |-> BatchResult(i, reps[i])] : reps \in [1..n -> Reports]}
         /\ events \in {[k \in 1..n |-> inp[p[k]]] : p \in Perms(n)}

SpecDeliver == DeliverInit /\ [][update_db_and_ui]_vars

(* DataUpdater.run, one run after another, on the same query and vendor data *)

\* bound: the runs of the query
MaxRuns == 2

\* line 53 on the values read
StaleAt(rt, lu, now) == rt = None \/ (now - lu) > DAY

\* lines 51-68 run without interruption: the cache after the call, the value returned,
\* whether the service was asked, and whether the dialog of line 66 was entered
get_usd_to_eur(rt, lu, now, resp) ==
    IF ~StaleAt(rt, lu, now)
    THEN [rate |-> rt, last_update |-> lu, ret |-> rt, asked |-> FALSE, dialog |-> FALSE]
    ELSE IF resp.kind = "ok"
    THEN [rate |-> resp.v, last_update |-> now, ret |-> resp.v, asked |-> TRUE, dialog |-> FALSE]
    ELSE IF resp.kind = "exception" /\ ExceptPc(rt) = "fallback"
    THEN [rate |-> FALLBACK, last_update |-> lu, ret |-> FALLBACK, asked |-> TRUE, dialog |-> TRUE]
    ELSE [rate |-> rt, last_update |-> lu, ret |-> rt, asked |-> TRUE, dialog |-> FALSE]

\* what the distributor may answer to the run's request
RunReplies ==
    { [kind |-> "exception", status_code |-> 0, Errors |-> FALSE, Parts |-> <<>>],
      Http(500, FALSE, <<>>), Http(200, TRUE, <<>>), Http(200, FALSE, <<>>),
      Http(200, FALSE, <<PartA>>) }

\* the worker's arguments (line 242), the stored key, and the vendors' data
RunInputs ==
    { [m_pn |-> pn, j_pn |-> code, qty |-> 10, key |-> key, mr |-> mr, page |-> page] :
        pn \in {<<>>, <<"M">>}, code \in {<<>>, <<"C", "1">>}, key \in {<<>>, <<"K">>},
        mr \in RunReplies, page \in JlcPages }

RunInit ==
    /\ rate = None
    /\ last_update = 0
    /\ clock = StartClock
    /\ jobs = <<>>
    /\ pending = <<>>
    /\ events = <<>>
    /\ project = <<>>
    /\ comps = <<>>
    /\ totals = calc_total(<<>>)
    /\ ticks = 0
    /\ env = "clock"
    /\ inp \in RunInputs
    /\ out = <<>>

\* lines 248-258. end is "emitted" when line 253 is reached, "raised" when line 181
\* raised, "hung" when the dialog of line 66 did not return.
run ==
    /\ Len(out) < MaxRuns
    /\ LET m == get_mouser_stats(inp.m_pn, inp.qty, inp.key, inp.mr)
           p == JlcParse(inp.j_pn, inp.qty, inp.page)
           base == [m_net |-> m.net, m_res |-> <<m.stock, m.price>>,
                    j_net |-> p.net, j_res |-> <<p.quantity, 0>>,
                    rate_call |-> ~p.early, rate_asked |-> FALSE, end |-> "emitted"]
       IN  IF p.early
           THEN /\ out' = Append(out, base)
                /\ UNCHANGED <<rate, last_update>>
           ELSE \E resp \in RateResponses, returns \in BOOLEAN :
                  LET g == get_usd_to_eur(rate, last_update, clock, resp)
                      j == JlcResult(p.quantity, p.usd, g.ret)
                  IN  /\ rate' = g.rate
                      /\ last_update' = g.last_update
                      /\ out' = Append(out,
                            [base EXCEPT !.rate_asked = g.asked,
                                         !.j_res = IF (g.dialog /\ ~returns) \/ j.raised
                                                   THEN <<0, 0>> ELSE <<j.stock, j.price>>,
                                         !.end = IF g.dialog /\ ~returns THEN "hung"
                                                 ELSE IF j.raised THEN "raised"
                                                 ELSE "emitted"])
    /\ UNCHANGED <<clock, jobs, pending, events, comps, totals, project, ticks, env, inp>>

SpecRun == RunInit /\ [][run \/ Tick]_vars

(* update_db_and_ui on the results of refreshes started while earlier jobs are in flight *)

\* bound: the jobs in flight at once
MaxInFlight == 4

\* lines 253-258: the dict of job j, a job for component c
OverlapResult(j, c, rep) ==
    [BatchResult(c, rep) EXCEPT !.job = j, !.timestamp = Timestamp(StartClock) + j]

\* refresh_prices was triggered r times on a project of n components before any result
\* was handled: job j is for component ((j - 1) % n) + 1. All jobs have emitted, in
\* any order.
OverlapInit ==
    /\ rate = None
    /\ last_update = 0
    /\ clock = StartClock
    /\ ticks = 0
    /\ env = "vendors"
    /\ pending = <<>>
    /\ out = NoOut
    /\ \E n \in 1..MaxInFlight, r \in 1..MaxInFlight :
         /\ n * r <= MaxInFlight
         /\ project = [i \in 1..n |-> Comp(<<"M">>, <<"C">>, 10)]
         /\ comps = [i \in 1..n |-> NewComponent(project[i])]
         /\ totals = calc_total(CompSeq(comps))
         /\ jobs = [j \in 1..(n * r) |-> [NewJob(((j - 1) % n) + 1) EXCEPT !.pc = "posted"]]
         /\ inp \in {[j \in 1..(n * r) |-> OverlapResult(j, ((j - 1) % n) + 1, reps[j])] :
                        reps \in [1..(n * r) -> Reports]}
         /\ events \in {[k \in 1..(n * r) |-> inp[p[k]]] : p \in Perms(n * r)}

SpecOverlap == OverlapInit /\ [][update_db_and_ui]_vars

-----------------------------------------------------------------------------
(* Properties of the refresh workers and of the exchange-rate cache *)

JobIds == DOMAIN jobs

\* job j takes the step that leaves program point a for program point b
Step(j, a, b) == j \in JobIds /\ jobs[j].pc = a /\ jobs'[j].pc = b

\* C1: every job a refresh starts eventually has its one result applied by
\* update_db_and_ui, whatever the vendors and the exchange-rate service answer
\* (runs in which the dialog of line 66 never returns are set aside).
C1_EveryJobDelivered ==
    \A j \in 1..MaxJobs :
        (j \in JobIds) ~> (\/ j \in JobIds /\ jobs[j].pc = "delivered"
                           \/ \E k \in JobIds : jobs[k].pc = "aborted")

\* C2: no adapter call ends in an exception that reaches DataUpdater.run: each
\* returns its [stock, total] pair.
C2_NoException == \A j \in JobIds : jobs[j].pc # "raised"

\* C3: the (rate, timestamp) pair is replaced as a whole: whenever a worker
\* completes its update of the cache and no other update is under way, the
\* stored rate, if it is a fetched one, is the one that worker fetched (or the
\* pair is what it was before, the worker's timestamp being the stored one), so
\* that no worker's rate stands beside another worker's timestamp.
C3_AtomicPair ==
    [][\A j \in JobIds :
          (/\ Step(j, "rate_w2", "rate_ret")
           /\ \A k \in JobIds : k # j => jobs[k].pc # "rate_w2"
           /\ rate' \in RateValues)
          => (rate' = jobs[j].r \/ last_update' = last_update)]_vars

\* C4: get_usd_to_eur never returns None: at its return statement a rate is
\* cached (0.92 when nothing was cached and the fetch failed).
C4_NeverNone == \A j \in JobIds : jobs[j].pc = "rate_ret" => rate # None

\* C5: a call issues the request iff no rate is cached or more than 86400 s
\* separate it from the stored time of the last successful fetch; a call that
\* issues none goes straight to the return of the cached rate and leaves the
\* cache as it is.
C5_FetchIffStale ==
    [][\A j \in JobIds :
          (jobs[j].pc = "rate_check" /\ jobs'[j].pc # "rate_check")
          => /\ jobs'[j].pc = "rate_fetch" <=> (rate = None \/ jobs[j].now - last_update > 86400)
             /\ jobs'[j].pc # "rate_fetch" =>
                   /\ jobs'[j].pc = "rate_ret"
                   /\ rate # None
                   /\ rate' = rate /\ last_update' = last_update]_vars

\* C5 witness: a call exactly 86400 s after a successful fetch is at the return
\* of the cached rate without having issued a request.
C5_Witness ==
    \E j \in JobIds :
        /\ jobs[j].pc = "rate_ret" /\ jobs[j].r = None
        /\ rate \in RateValues
        /\ jobs[j].now - last_update = 86400

\* C6: when a rate is cached and the refetch fails (exception or non-200), the
\* call writes neither the rate nor the timestamp, goes to its return
\* statement, and what it returns there is the cached rate: the supplier total
\* is converted with it.
C6_StaleServed ==
    [][\A j \in JobIds :
          /\ (jobs[j].pc = "rate_fetch" /\ rate # None
                 /\ jobs'[j].pc \notin {"rate_fetch", "rate_w2"})
             => (jobs'[j].pc = "rate_ret" /\ rate' = rate /\ last_update' = last_update)
          /\ (jobs[j].pc = "rate_ret" /\ jobs'[j].pc # "rate_ret" /\ rate # None)
             => /\ jobs'[j].pc = "emit"
                /\ jobs'[j].j_res[2] = jobs[j].j_res[2] * rate
                /\ rate' = rate /\ last_update' = last_update]_vars

\* C6 witness: a rate was fetched more than a day ago, the refetch of a later
\* call failed, and that call is at its return statement.
C6_Witness ==
    \E j \in JobIds :
        /\ jobs[j].pc = "rate_ret" /\ jobs[j].r = None
        /\ rate \in RateValues
        /\ jobs[j].now - last_update > 86400

-----------------------------------------------------------------------------
(* Properties of the tier selection and of the totals *)

\* the greatest and the least of a non-empty set of numbers
MaxOf(S) == CHOOSE x \in S : \A y \in S : y <= x
MinOf(S) == CHOOSE x \in S : \A y \in S : x <= y

\* the prices a tier resolution may select in the listed (minimum, price) pairs:
\* those of the greatest minimum <= qty, those of the lowest minimum when none qualifies
Resolved(mins, prices, qty) ==
    LET I == DOMAIN mins
        Q == {i \in I : mins[i] <= qty}
    IN  IF I = {} THEN {0}
        ELSE IF Q = {} THEN {prices[i] : i \in {k \in I : mins[k] = MinOf({mins[n] : n \in I})}}
        ELSE {prices[i] : i \in {k \in Q : mins[k] = MaxOf({mins[n] : n \in Q})}}

ExampleTiers == <<<<1, 500>>, <<10, 400>>, <<100, 300>>>>

\* C8: for every tier list and quantity the supplier adapter's unit price is the price of
\* the greatest tier whose minimum is <= the quantity, the lowest-minimum tier's price when
\* the quantity is below every minimum, and 0 without tiers; the native total is unit price
\* times quantity; tiers (1,0.50),(10,0.40),(100,0.30) with quantity 25 give 0.40 and 10.00.
C8_TierSelection ==
    out.done =>
        /\ out.unit \in Resolved(Quant(inp.tiers), Cost(inp.tiers), inp.qnty)
        /\ inp.tiers = <<>> => out.unit = 0
        /\ out.total = out.unit * inp.qnty
        /\ (inp.tiers = ExampleTiers /\ inp.qnty = 25) => (out.unit = 400 /\ out.total = 10000)

\* a resolved list given out of order, the quantity lying between two minimums
C8_Witness ==
    /\ out.done
    /\ inp.tiers = <<<<100, 300>>, <<1, 500>>, <<10, 400>>>>
    /\ inp.qnty = 25
    /\ out.unit = 400
    /\ out.total = 10000

\* the price breaks of a call whose response carries a part
BreaksOf(call) == call.r.Parts[1].PriceBreaks

\* a call answered with a part whose breaks all carry a numeric Quantity and a positive Price
WellFormed(call) ==
    /\ call.part_number # <<>> /\ call.api_key # <<>>
    /\ call.r.kind = "http" /\ call.r.status_code = 200 /\ ~call.r.Errors
    /\ call.r.Parts # <<>>
    /\ \A i \in DOMAIN BreaksOf(call) :
          /\ MouserQuantity(BreaksOf(call)[i].Quantity).ok
          /\ MouserPrice(BreaksOf(call)[i].Price).ok
          /\ MouserPrice(BreaksOf(call)[i].Price).val > 0

\* C9: for every list of price breaks, in whatever order, and every quantity, the unit
\* price the distributor adapter uses is the price of the break with the greatest minimum
\* quantity <= the requested quantity, or the lowest-minimum break's price when none
\* qualifies.
C9_BreaksResolved ==
    (out.done /\ WellFormed(inp) /\ BreaksOf(inp) # <<>>) =>
        \E u \in Resolved([i \in DOMAIN BreaksOf(inp) |-> MouserQuantity(BreaksOf(inp)[i].Quantity).val],
                           [i \in DOMAIN BreaksOf(inp) |-> MouserPrice(BreaksOf(inp)[i].Price).val],
                           inp.qty) :
            out.price = u * inp.qty

RECURSIVE SumOver(_, _)
SumOver(S, f) ==
    IF S = {} THEN 0
    ELSE LET x == CHOOSE y \in S : TRUE
         IN  f[x] + SumOver(S \ {x}, f)

\* C10: the Mouser total is the sum of the Mouser prices of the components whose Mouser
\* stock is at least the target quantity, the JLCPCB total likewise, and the hybrid total
\* the sum per component of the least price among the vendors with sufficient stock, a
\* component without one adding 0; stock -1 is never sufficient, and the hybrid total is 0
\* when no component has sufficient stock at any vendor.
C10_Totals ==
    out.done =>
        LET I == DOMAIN inp
            A == {i \in I : inp[i].last_mouser_stock # -1
                            /\ inp[i].last_mouser_stock >= inp[i].target_qty}
            B == {i \in I : inp[i].last_jlc_stock # -1
                            /\ inp[i].last_jlc_stock >= inp[i].target_qty}
            least == [i \in I |->
                        IF i \in A /\ i \in B
                        THEN MinOf({inp[i].last_mouser_price, inp[i].last_jlc_price})
                        ELSE IF i \in A THEN inp[i].last_mouser_price
                        ELSE IF i \in B THEN inp[i].last_jlc_price
                        ELSE 0]
        IN  /\ out.tm = SumOver(A, [i \in I |-> inp[i].last_mouser_price])
            /\ out.tj = SumOver(B, [i \in I |-> inp[i].last_jlc_price])
            /\ out.hybrid_total = SumOver(I, least)
            /\ (A \cup B = {}) => out.hybrid_total = 0

\* Mouser failed (stock -1) and JLCPCB holds 50 for 10 at 5.00, beside a component both
\* vendors hold exactly in the target quantity
C10_Witness ==
    /\ out.done
    /\ inp = <<Row(10, -1, 7000000, 50, 5000000), Row(10, 10, 7000000, 10, 5000000)>>
    /\ out.tm = 7000000
    /\ out.tj = 10000000
    /\ out.hybrid_total = 10000000

-----------------------------------------------------------------------------
(* Properties of the delivery of results *)

\* the rows of the project as refresh_prices found them
FreshRows == [i \in 1..Len(project) |-> NewComponent(project[i])]

\* the results rs applied from index i on, in the order of rs, those of the jobs in D only
RECURSIVE InOrder(_, _, _, _)
InOrder(cs, rs, i, D) ==
    IF i > Len(rs) THEN cs
    ELSE InOrder(IF rs[i].job \in D THEN ApplyResult(cs, rs[i]) ELSE cs, rs, i + 1, D)

Delivered == {j \in JobIds : jobs[j].pc = "delivered"}

\* C11: in whatever order the results of a batch are delivered, the component records
\* and the three totals are those that delivering the same results in submission order
\* gives, at the end of the batch and after each delivery.
C11_AnyOrder ==
    LET expected == InOrder(FreshRows, inp, 1, Delivered)
    IN  /\ comps = expected
        /\ totals = calc_total(CompSeq(expected))

\* the results of jobs 3 and 2 applied before that of job 1
C11_Witness ==
    /\ Len(inp) = 3 /\ Len(project) = 3
    /\ Delivered = {2, 3}
    /\ comps[3] # FreshRows[3] /\ comps[2] # FreshRows[2]
    /\ Len(events) = 1 /\ Head(events).id = 1
    /\ totals.hybrid_total > 0

\* C12: applying a delivered result changes only the component whose id is the
\* result's: every other component keeps its stock, price and timestamp fields, and a
\* result whose id names no component changes no component.
C12_OnlyOwnRow ==
    [][events # <<>> =>
          /\ DOMAIN comps' = DOMAIN comps
          /\ \A i \in DOMAIN comps : i # Head(events).id => comps'[i] = comps[i]
          /\ Head(events).id \notin DOMAIN comps => comps' = comps]_vars

\* the result of a deleted component and that of component 1 have been applied; the row
\* of component 2 is as it was
C12_Witness ==
    /\ Len(inp) = 3 /\ Len(project) = 2
    /\ Delivered = {1, 3}
    /\ comps[1] # FreshRows[1]
    /\ comps[2] = FreshRows[2]

-----------------------------------------------------------------------------
(* Properties of the workers' effects *)

\* C13: a worker mutates neither the UI nor the storage: the component records and the
\* totals change only in the GUI thread's update_db_and_ui, and no worker, the
\* exchange-rate lookup included, enters a UI call (the dialog of line 66).
C13_WorkersLeaveUiAlone ==
    [][/\ (comps' # comps \/ totals' # totals) => (events # <<>> /\ events' = Tail(events))
       /\ \A j \in DOMAIN jobs' : jobs'[j].pc # "warn"]_vars

-----------------------------------------------------------------------------
(* Properties of the adapters' failure results and of repeated runs *)

\* the distributor's request is issued and fails in one of the four ways
MouserFails(i) ==
    /\ i.m_pn # <<>> /\ i.key # <<>>
    /\ \/ i.mr.kind = "exception"
       \/ i.mr.status_code # 200
       \/ i.mr.Errors
       \/ i.mr.Parts = <<>>

\* the supplier's page is requested and cannot be fetched
PageFails(i) == i.j_pn # <<>> /\ i.page.status # "ok"

\* C14: get_mouser_stats returns exactly stock -1 and total 0 on a transport error, a
\* non-200 response, a response with API errors and an empty result set;
\* get_jlcpcb_stats returns stock -1 and total 0 when the page cannot be fetched.
C14_Sentinels ==
    \A k \in DOMAIN out :
        /\ MouserFails(inp) => out[k].m_res = <<-1, 0>>
        /\ PageFails(inp) => (out[k].j_res = <<-1, 0>> /\ out[k].end = "emitted")

\* a run whose distributor request was answered 500 and whose page request failed
C14_Witness ==
    /\ MouserFails(inp) /\ inp.mr.kind = "http" /\ inp.mr.status_code = 500
    /\ PageFails(inp)
    /\ Len(out) >= 1
    /\ out[1].m_net /\ out[1].j_net

\* C15: without a key or without a distributor identifier get_mouser_stats returns
\* stock -1, total 0 and issues no request; without a supplier identifier
\* get_jlcpcb_stats returns stock -1, total 0, issues no request and does not consult
\* the exchange-rate cache, which stays as it was.
C15_ShortCircuit ==
    /\ \A k \in DOMAIN out :
        /\ (inp.m_pn = <<>> \/ inp.key = <<>>) =>
              (out[k].m_res = <<-1, 0>> /\ ~out[k].m_net)
        /\ inp.j_pn = <<>> =>
              /\ out[k].j_res = <<-1, 0>> /\ ~out[k].j_net
              /\ ~out[k].rate_call /\ ~out[k].rate_asked
              /\ out[k].end = "emitted"
    /\ inp.j_pn = <<>> => (rate = None /\ last_update = 0)

\* two runs without a key and without a supplier identifier, the vendors being well
C15_Witness ==
    /\ inp.key = <<>> /\ inp.m_pn # <<>> /\ inp.j_pn = <<>>
    /\ inp.mr = Http(200, FALSE, <<PartA>>) /\ inp.page.status = "ok"
    /\ Len(out) = 2
    /\ clock > StartClock

\* C16: two runs of the same query on unchanged vendor data give the identical
\* [stock, total] from each adapter, whatever happens to the exchange-rate cache
\* between them.
C16_SameTwice ==
    \A a, b \in DOMAIN out :
        (out[a].end = "emitted" /\ out[b].end = "emitted") =>
            (out[a].m_res = out[b].m_res /\ out[a].j_res = out[b].j_res)

-----------------------------------------------------------------------------
(* Properties of the distributor adapter's parsing *)

\* a call answered 200, without errors, with a part
Answered(call) ==
    /\ call.part_number # <<>> /\ call.api_key # <<>>
    /\ call.r.kind = "http" /\ call.r.status_code = 200 /\ ~call.r.Errors
    /\ call.r.Parts # <<>>

\* the breaks carry numeric minimum quantities, listed in strictly ascending order
Ascending(call) ==
    /\ \A i \in DOMAIN BreaksOf(call) : BreaksOf(call)[i].Quantity.k = "num"
    /\ \A i, k \in DOMAIN BreaksOf(call) :
          i < k => BreaksOf(call)[i].Quantity.v < BreaksOf(call)[k].Quantity.v

\* the index of the break with the greatest minimum quantity <= qty in an ascending
\* list, 0 when there is none
Applicable(call) ==
    LET Q == {i \in DOMAIN BreaksOf(call) : BreaksOf(call)[i].Quantity.v <= call.qty}
    IN  IF Q = {} THEN 0 ELSE MaxOf(Q)

\* the price string of a break, empty when the price is no string
PriceText(b) == IF b.Price.k = "str" THEN b.Price.v ELSE <<>>

\* A price string normalized: currency symbols and blanks dropped; with both ',' and
\* '.', the one occurring first dropped as thousands separator and the other the
\* decimal marker; with ',' alone, ',' the decimal marker; then read as a decimal
\* (millionths).
Normalize(s) ==
    LET t == Strip(Remove(Remove(s, EuroSign), "$"))
        c == FirstIndex(t, ",")
        d == FirstIndex(t, ".")
        u == IF c # 0 /\ d # 0
             THEN (IF c < d THEN Remove(t, ",") ELSE Replace(Remove(t, "."), ",", "."))
             ELSE Replace(t, ",", ".")
    IN  ParseFloat(u)

\* C17: a distributor price in which both ',' and '.' appear is read with the separator
\* occurring first dropped as the thousands separator and the other as the decimal
\* marker, and one with ',' alone with ',' as the decimal marker: '$1,234.50' and
\* '1.234,50' are both 1234.50.
C17_Separators ==
    (/\ out.done /\ Answered(inp) /\ Ascending(inp) /\ Applicable(inp) # 0
     /\ Normalize(PriceText(BreaksOf(inp)[Applicable(inp)])).ok) =>
        /\ Normalize(<<"$", "1", ",", "2", "3", "4", ".", "5", "0">>).val = 1234500000
        /\ Normalize(<<"1", ".", "2", "3", "4", ",", "5", "0">>).val = 1234500000
        /\ out.price % inp.qty = 0
        /\ out.price \div inp.qty = Normalize(PriceText(BreaksOf(inp)[Applicable(inp)])).val

\* C18: a break whose price string is empty or unparseable has the price 0: when it is
\* the applicable tier for the requested quantity, the unit price used is 0, not the
\* price of another tier.
C18_UnparseableIsZero ==
    (/\ out.done /\ Answered(inp) /\ Ascending(inp) /\ Applicable(inp) # 0
     /\ ~Normalize(PriceText(BreaksOf(inp)[Applicable(inp)])).ok) =>
        (out.stock # -1 /\ out.price = 0)

\* the digits of a JSON value that is a string, none otherwise
FieldDigits(x) == IF x.k = "str" THEN FilterDigits(x.v) ELSE <<>>

\* C19: the stock is read from Availability, and from FactoryStock whenever
\* Availability is absent (key missing or null); only the digits of the chosen field
\* are kept, and the stock is 0 when it holds no digit.
C19_StockField ==
    (/\ out.done /\ Answered(inp)
     /\ \A i \in DOMAIN BreaksOf(inp) : MouserQuantity(BreaksOf(inp)[i].Quantity).ok) =>
        LET part == inp.r.Parts[1]
            chosen == IF part.Availability.k \in {"missing", "null"}
                      THEN part.FactoryStock ELSE part.Availability
        IN  out.stock = IF FieldDigits(chosen) = <<>> THEN 0
                        ELSE DigitsToNat(FieldDigits(chosen))

\* C20: a 200 response with a part whose stock is readable but one of whose breaks has a
\* malformed Quantity or Price still gives the parsed stock, not -1.
C20_ParseErrorKeepsStock ==
    (/\ out.done /\ Answered(inp)
     /\ \E i \in DOMAIN BreaksOf(inp) :
           \/ ~MouserQuantity(BreaksOf(inp)[i].Quantity).ok
           \/ ~MouserPrice(BreaksOf(inp)[i].Price).ok) =>
        (out.stock # -1 /\ out.stock = MouserStock(inp.r.Parts[1]))

-----------------------------------------------------------------------------
(* Properties of stored prices of 0, of failed refreshes and of overlapping refreshes *)

\* what a component adds to the hybrid total when a price of 0 is no usable price: a
\* sufficient vendor priced 0 is passed over for the other sufficient vendor priced > 0
UsableBest(c) ==
    LET a == c.last_mouser_stock >= c.target_qty
        b == c.last_jlc_stock >= c.target_qty
        pa == c.last_mouser_price
        pb == c.last_jlc_price
    IN  IF a /\ b
        THEN (IF pa = 0 /\ pb > 0 THEN pb
              ELSE IF pb = 0 /\ pa > 0 THEN pa
              ELSE MinOf({pa, pb}))
        ELSE IF a THEN pa
        ELSE IF b THEN pb
        ELSE 0

\* C21: in calc_total a vendor with sufficient stock and a stored price of 0 is not
\* taken as the hybrid best price when the other vendor has sufficient stock and a
\* price > 0: the component adds the other vendor's price to the hybrid total.
C21_ZeroPriceUnusable ==
    out.done => out.hybrid_total = SumOver(DOMAIN inp, [i \in DOMAIN inp |-> UsableBest(inp[i])])

\* the step in which the GUI thread handles the oldest queued result
Delivery == events # <<>> /\ events' = Tail(events)

\* C22: a refresh overwrites the stored values also on failure: once update_db_and_ui
\* has applied a result whose vendor fetch failed, the component's stored stock for
\* that vendor is -1 and its price 0, whatever was stored before, and the vendor's
\* total does not count the component.
C22_FailureOverwrites ==
    [][(Delivery /\ Head(events).id \in DOMAIN comps) =>
          LET d == Head(events)
              c == comps'[d.id]
              others == DOMAIN comps' \ {d.id}
          IN  /\ d.mouser_stock = -1 =>
                    /\ c.last_mouser_stock = -1 /\ c.last_mouser_price = 0
                    /\ totals'.tm =
                          SumOver({i \in others :
                                      comps'[i].last_mouser_stock >= comps'[i].target_qty},
                                  [i \in DOMAIN comps' |-> comps'[i].last_mouser_price])
              /\ d.jlc_stock = -1 =>
                    /\ c.last_jlc_stock = -1 /\ c.last_jlc_price = 0
                    /\ totals'.tj =
                          SumOver({i \in others :
                                      comps'[i].last_jlc_stock >= comps'[i].target_qty},
                                  [i \in DOMAIN comps' |-> comps'[i].last_jlc_price])]_vars

\* two jobs for one component, the first reporting Mouser stock 50 and the second a
\* failed Mouser fetch; both are applied and the second was the last
C22_Witness ==
    /\ Len(project) = 1 /\ Len(inp) = 2
    /\ inp[1].mouser_stock = 50 /\ inp[2].mouser_stock = -1
    /\ events = <<>> /\ Delivered = {1, 2}
    /\ comps[1].last_update = inp[2].timestamp
    /\ comps[1].last_mouser_stock = -1 /\ comps[1].last_mouser_price = 0
    /\ totals.tm = 0 /\ totals.hybrid_total = inp[2].jlc_price

\* C23: with two jobs for one component in flight, each delivery leaves in the
\* component record the result just delivered, so that after all deliveries the record
\* holds the result delivered last, whichever refresh it came from, and the totals are
\* calc_total of the records.
C23_LastDeliveryWins ==
    [][Delivery =>
          LET d == Head(events)
          IN  /\ d.id \in DOMAIN comps =>
                    /\ comps'[d.id].last_mouser_stock = d.mouser_stock
                    /\ comps'[d.id].last_mouser_price = d.mouser_price
                    /\ comps'[d.id].last_jlc_stock = d.jlc_stock
                    /\ comps'[d.id].last_jlc_price = d.jlc_price
                    /\ comps'[d.id].last_update = d.timestamp
              /\ totals' = calc_total(CompSeq(comps'))]_vars

\* two refreshes of one component: the job of the second refresh was delivered first,
\* and the record and the totals are those of the first refresh's job
C23_Witness ==
    /\ Len(project) = 1 /\ Len(inp) = 2
    /\ inp[1].mouser_price # inp[2].mouser_price /\ inp[1].jlc_stock # inp[2].jlc_stock
    /\ events = <<>> /\ Delivered = {1, 2}
    /\ comps[1].last_update = inp[1].timestamp
    /\ comps[1].last_mouser_price = inp[1].mouser_price
    /\ comps[1].last_jlc_stock = inp[1].jlc_stock
    /\ totals = calc_total(CompSeq(comps))
    /\ totals.hybrid_total > 0

=============================================================================
